---- MODULE Spec2Model ----
(***************************************************************************)
(* Editor-automation scripts of the SpecialAgentPlugin:                    *)
(*   Content/Python/prop_tents.py       radial prop placement around tents *)
(*   Content/Python/terrain_analysis.py grid raycast sampling of a region  *)
(*   Content/Python/check_props.py      count of the placed props          *)
(*                                                                         *)
(* Units.  Labels are sequences of one-character strings.  Angles are in   *)
(* 1/7 degree (so that i*360/k is an integer for every k <= 8), world      *)
(* coordinates of the scene in 1/100 unit, scales in 1/1000, sines and     *)
(* cosines in 1/10000.  Terrain coordinates are whole units.               *)
(***************************************************************************)
EXTENDS Integers, Sequences, FiniteSets, TLC

VARIABLES
    \* ---- the level (owned by the editor) and the editor session
    scene,              \* the level's actors, in enumeration order
    level0,             \* number of actors in the level before the first run
    rng,                \* state of the interpreter's `random` generator
    refuse_at,          \* the spawn request the editor refuses (0: none)
    spawn_calls,        \* spawn requests sent in this session
    run,                \* runs of prop_tents.py started so far
    \* ---- prop_tents.py
    pc,                 \* position in the script
    all_actors,         \* line 6: the snapshot (indices into scene)
    scan_i,             \* line 14: position of the classification loop
    tents,              \* line 9
    props_with_meshes,  \* line 10
    num_props_per_tent, \* line 40
    new_actors,         \* line 42
    tent_i,             \* line 44: position of the loop over tents
    tent_loc,           \* line 45
    selected_props,     \* line 49
    i,                  \* line 51
    angle,              \* line 53
    distance,           \* line 54
    new_location,       \* line 60
    new_rotation,       \* line 70: the yaw
    new_actor,          \* line 67: index of the spawned actor, 0 for None
    requests,           \* requests sent to the scene in this run, per kind
    message,            \* the script's closing print
    \* ---- terrain_analysis.py
    t_pc,
    world,              \* line 19: whether an editor world exists
    bounds_min,         \* <<min_x, min_y>>
    bounds_max,         \* <<max_x, max_y>>
    sample_spacing,
    x,
    y,
    sample_count,
    hit_count,
    heights,
    traces,             \* the (x, y) of every line trace issued, in order
    stats               \* lines 70-75: <<>> when no statistics are printed

prop_vars == <<scene, level0, rng, refuse_at, spawn_calls, run, pc, all_actors, scan_i,
               tents, props_with_meshes, num_props_per_tent, new_actors, tent_i,
               tent_loc, selected_props, i, angle, distance, new_location,
               new_rotation, new_actor, requests, message>>

terrain_vars == <<t_pc, world, bounds_min, bounds_max, sample_spacing, x, y,
                  sample_count, hit_count, heights, traces, stats>>

vars == <<prop_vars, terrain_vars>>

----------------------------------------------------------------------------
(* Bounds of the model *)

\* runs of prop_tents.py on the same level
MaxRuns == 2

\* tents of a level
MaxTents == 2

\* plain props of a level (more than 8, so that min(8, len(props_with_meshes))
\* clamps)
CrowdSize == 9

\* seeds of the random generator
NumSeeds == 3

\* the editor refuses at most one spawn request, one of the first MaxRefusedSpawn
MaxRefusedSpawn == 3

\* actors of a level whose classification alone is followed
MaxScanActors == 3

\* line traces after which the model stops following a sweep
MaxSamples == 25

\* the model stops following a sweep whose x leaves -CoordinateLimit .. CoordinateLimit
CoordinateLimit == 3000

----------------------------------------------------------------------------
(* Strings: str.lower, `in`, str.startswith, str(int) *)

UpperCase == <<"A","B","C","D","E","F","G","H","I","J","K","L","M",
               "N","O","P","Q","R","S","T","U","V","W","X","Y","Z">>

LowerCase == <<"a","b","c","d","e","f","g","h","i","j","k","l","m",
               "n","o","p","q","r","s","t","u","v","w","x","y","z">>

LowerChar(c) ==
    IF \E n \in 1..26 : UpperCase[n] = c
    THEN LowerCase[CHOOSE n \in 1..26 : UpperCase[n] = c]
    ELSE c

Lower(s) == [n \in 1..Len(s) |-> LowerChar(s[n])]

\* kw in s
Contains(s, kw) ==
    \E off \in 0..(Len(s) - Len(kw)) : \A m \in 1..Len(kw) : s[off + m] = kw[m]

StartsWith(s, p) ==
    Len(p) <= Len(s) /\ \A m \in 1..Len(p) : s[m] = p[m]

DigitChars == <<"0","1","2","3","4","5","6","7","8","9">>

RECURSIVE Str(_)
Str(n) == IF n < 10 THEN <<DigitChars[n + 1]>>
          ELSE Str(n \div 10) \o <<DigitChars[(n % 10) + 1]>>

----------------------------------------------------------------------------
(* prop_tents.py: classification *)

AnchorKeyword == <<"t","e","n","t">>

ExclusionKeywords ==
    << <<"f","l","o","o","r">>,
       <<"p","l","a","n","e">>,
       <<"g","r","o","u","n","d">>,
       <<"l","a","n","d","s","c","a","p","e">>,
       <<"s","k","y">>,
       <<"t","e","r","r","a","i","n">> >>

IsTentLabel(actor_label) == Contains(actor_label, AnchorKeyword)

HasExclusionKeyword(actor_label) ==
    \E n \in 1..Len(ExclusionKeywords) : Contains(actor_label, ExclusionKeywords[n])

\* line 17
IsTent(actor) == IsTentLabel(Lower(actor.label))

\* the elif of line 21 taken without the if of line 17 guarding it
IsPropWithMesh_NoElif(actor) ==
    /\ actor.cls = "StaticMeshActor"
    /\ ~HasExclusionKeyword(Lower(actor.label))
    /\ actor.mesh # 0

\* line 23 with 'floor' missing from the keyword list
IsPropWithMesh_NoFloor(actor) ==
    /\ ~IsTent(actor)
    /\ actor.cls = "StaticMeshActor"
    /\ ~\E n \in 2..Len(ExclusionKeywords) :
            Contains(Lower(actor.label), ExclusionKeywords[n])
    /\ actor.mesh # 0

\* lines 17-25: the branch that appends to props_with_meshes
IsPropWithMesh(actor) ==
    /\ ~IsTent(actor)
    /\ actor.cls = "StaticMeshActor"
    /\ ~HasExclusionKeyword(Lower(actor.label))
    /\ actor.mesh # 0

----------------------------------------------------------------------------
(* The random module.  The generator is a small linear congruential one:   *)
(* every draw reads the state and advances it, as random.random() does.    *)

NextRng(s) == (5 * s + 3) % 32

\* random._randbelow(n)
Randbelow(n, s) == s % n

\* random.uniform(a, b) == a + (b - a) * random(), random() one of 0, 1/4 .. 1
Uniform(a, b, s) == a + ((b - a) * (s % 5)) \div 4

\* random.sample(population, k): the pool algorithm of CPython
\*   j = randbelow(n - m); result[m] = pool[j]; pool[j] = pool[n - m - 1]
RECURSIVE SamplePool(_, _, _, _)
SamplePool(pool, k, s, result) ==
    IF Len(result) = k THEN <<result, s>>
    ELSE LET n == Len(pool)
             j == Randbelow(n, s) + 1
         IN  SamplePool([m \in 1..(n - 1) |-> IF m = j THEN pool[n] ELSE pool[m]],
                        k, NextRng(s), Append(result, pool[j]))

Sample(population, k, s) == SamplePool(population, k, s, <<>>)

----------------------------------------------------------------------------
(* math.cos, math.sin of an angle given in 1/7 degree, in 1/10000 *)

Degrees(d) == 7 * d

FullTurn == Degrees(360)

SinTable ==
    <<
       0, 25, 50, 75, 100, 125, 150, 175, 199, 224, 249, 274,
       299, 324, 349, 374, 399, 424, 449, 474, 498, 523, 548, 573,
       598, 623, 648, 673, 698, 722, 747, 772, 797, 822, 847, 872,
       896, 921, 946, 971, 996, 1020, 1045, 1070, 1095, 1120, 1144, 1169,
       1194, 1219, 1243, 1268, 1293, 1318, 1342, 1367, 1392, 1416, 1441, 1466,
       1490, 1515, 1540, 1564, 1589, 1614, 1638, 1663, 1687, 1712, 1736, 1761,
       1786, 1810, 1835, 1859, 1884, 1908, 1933, 1957, 1981, 2006, 2030, 2055,
       2079, 2103, 2128, 2152, 2177, 2201, 2225, 2250, 2274, 2298, 2322, 2347,
       2371, 2395, 2419, 2443, 2468, 2492, 2516, 2540, 2564, 2588, 2612, 2636,
       2660, 2684, 2708, 2732, 2756, 2780, 2804, 2828, 2852, 2876, 2900, 2924,
       2948, 2971, 2995, 3019, 3043, 3066, 3090, 3114, 3138, 3161, 3185, 3208,
       3232, 3256, 3279, 3303, 3326, 3350, 3373, 3397, 3420, 3444, 3467, 3490,
       3514, 3537, 3560, 3584, 3607, 3630, 3653, 3677, 3700, 3723, 3746, 3769,
       3792, 3815, 3838, 3861, 3884, 3907, 3930, 3953, 3976, 3999, 4022, 4045,
       4067, 4090, 4113, 4136, 4158, 4181, 4204, 4226, 4249, 4271, 4294, 4316,
       4339, 4361, 4384, 4406, 4428, 4451, 4473, 4495, 4518, 4540, 4562, 4584,
       4606, 4629, 4651, 4673, 4695, 4717, 4739, 4761, 4783, 4804, 4826, 4848,
       4870, 4892, 4913, 4935, 4957, 4978, 5000, 5022, 5043, 5065, 5086, 5108,
       5129, 5150, 5172, 5193, 5214, 5236, 5257, 5278, 5299, 5320, 5341, 5362,
       5384, 5405, 5425, 5446, 5467, 5488, 5509, 5530, 5551, 5571, 5592, 5613,
       5633, 5654, 5674, 5695, 5715, 5736, 5756, 5777, 5797, 5817, 5837, 5858,
       5878, 5898, 5918, 5938, 5958, 5978, 5998, 6018, 6038, 6058, 6078, 6098,
       6117, 6137, 6157, 6176, 6196, 6215, 6235, 6254, 6274, 6293, 6313, 6332,
       6351, 6370, 6390, 6409, 6428, 6447, 6466, 6485, 6504, 6523, 6542, 6561,
       6579, 6598, 6617, 6636, 6654, 6673, 6691, 6710, 6728, 6747, 6765, 6783,
       6802, 6820, 6838, 6856, 6874, 6893, 6911, 6929, 6947, 6964, 6982, 7000,
       7018, 7036, 7053, 7071, 7089, 7106, 7124, 7141, 7159, 7176, 7193, 7211,
       7228, 7245, 7262, 7279, 7297, 7314, 7331, 7347, 7364, 7381, 7398, 7415,
       7431, 7448, 7465, 7481, 7498, 7514, 7531, 7547, 7563, 7580, 7596, 7612,
       7628, 7644, 7660, 7676, 7692, 7708, 7724, 7740, 7756, 7771, 7787, 7803,
       7818, 7834, 7849, 7865, 7880, 7895, 7911, 7926, 7941, 7956, 7971, 7986,
       8001, 8016, 8031, 8046, 8061, 8075, 8090, 8105, 8119, 8134, 8148, 8163,
       8177, 8192, 8206, 8220, 8234, 8248, 8262, 8276, 8290, 8304, 8318, 8332,
       8346, 8359, 8373, 8387, 8400, 8414, 8427, 8441, 8454, 8467, 8480, 8494,
       8507, 8520, 8533, 8546, 8559, 8572, 8584, 8597, 8610, 8623, 8635, 8648,
       8660, 8673, 8685, 8697, 8710, 8722, 8734, 8746, 8758, 8770, 8782, 8794,
       8806, 8818, 8829, 8841, 8853, 8864, 8876, 8887, 8899, 8910, 8921, 8933,
       8944, 8955, 8966, 8977, 8988, 8999, 9010, 9020, 9031, 9042, 9053, 9063,
       9074, 9084, 9094, 9105, 9115, 9125, 9135, 9146, 9156, 9166, 9176, 9185,
       9195, 9205, 9215, 9224, 9234, 9244, 9253, 9262, 9272, 9281, 9290, 9300,
       9309, 9318, 9327, 9336, 9345, 9354, 9362, 9371, 9380, 9388, 9397, 9405,
       9414, 9422, 9431, 9439, 9447, 9455, 9463, 9471, 9479, 9487, 9495, 9503,
       9511, 9518, 9526, 9533, 9541, 9548, 9556, 9563, 9570, 9578, 9585, 9592,
       9599, 9606, 9613, 9619, 9626, 9633, 9640, 9646, 9653, 9659, 9666, 9672,
       9678, 9685, 9691, 9697, 9703, 9709, 9715, 9721, 9727, 9732, 9738, 9744,
       9749, 9755, 9760, 9766, 9771, 9776, 9781, 9787, 9792, 9797, 9802, 9807,
       9811, 9816, 9821, 9826, 9830, 9835, 9839, 9844, 9848, 9852, 9857, 9861,
       9865, 9869, 9873, 9877, 9881, 9885, 9888, 9892, 9896, 9899, 9903, 9906,
       9909, 9913, 9916, 9919, 9922, 9925, 9928, 9931, 9934, 9937, 9940, 9943,
       9945, 9948, 9950, 9953, 9955, 9957, 9960, 9962, 9964, 9966, 9968, 9970,
       9972, 9974, 9976, 9977, 9979, 9981, 9982, 9984, 9985, 9986, 9988, 9989,
       9990, 9991, 9992, 9993, 9994, 9995, 9996, 9996, 9997, 9997, 9998, 9998,
       9999, 9999, 10000, 10000, 10000, 10000, 10000
    >>

\* sine of an angle of the first quadrant, 0 .. Degrees(90)
SinQ(a) == SinTable[a + 1]

Sin(a) ==
    LET r == a % FullTurn
    IN  IF r <= Degrees(90) THEN SinQ(r)
        ELSE IF r <= Degrees(180) THEN SinQ(Degrees(180) - r)
        ELSE IF r <= Degrees(270) THEN 0 - SinQ(r - Degrees(180))
        ELSE 0 - SinQ(FullTurn - r)

Cos(a) == Sin(a + Degrees(90))

----------------------------------------------------------------------------
(* prop_tents.py: placement arithmetic *)

Min(a, b) == IF a <= b THEN a ELSE b

placement_radius == 400

\* line 40
NumPropsPerTent(n) == Min(8, n)

\* line 53 dividing by len(props_with_meshes) instead of num_props_per_tent
SlotAngle_ByCatalogue(idx, k) == (idx * FullTurn) \div Len(props_with_meshes)

\* line 53: (i / num_props_per_tent) * 360.0
SlotAngle(idx, k) == (idx * FullTurn) \div k

\* line 53
PlacementAngle(idx, k, s) == SlotAngle(idx, k) + Uniform(Degrees(-20), Degrees(20), s)

\* line 54 drawing from the whole disc
PlacementDistance_FromCentre(s) == Uniform(0, placement_radius, s)

\* line 54
PlacementDistance(s) == Uniform((placement_radius * 6) \div 10, placement_radius, s)

\* lines 57-64
NewLocation(loc, a, d) ==
    [x |-> loc.x + (Cos(a) * d) \div 100,
     y |-> loc.y + (Sin(a) * d) \div 100,
     z |-> loc.z]

\* line 70
NewRotation(s) == Uniform(0, 360, s)

\* line 79
ScaleVariation(s) == Uniform(800, 1200, s)

\* lines 80-84
NewScale(base_scale, scale_variation) ==
    [x |-> (base_scale.x * scale_variation) \div 1000,
     y |-> (base_scale.y * scale_variation) \div 1000,
     z |-> (base_scale.z * scale_variation) \div 1000]

PropPrefix == <<"P","r","o","p","_">>

\* line 87 with the tent's label where the prop's belongs
SpawnLabel_OfTent(prop_label, idx) ==
    PropPrefix \o scene[tents[tent_i]].label \o <<"_">> \o Str(idx)

\* line 87
SpawnLabel(prop_label, idx) == PropPrefix \o prop_label \o <<"_">> \o Str(idx)

\* check_props.py, lines 6-9
PropCount(actors) ==
    Cardinality({n \in 1..Len(actors) : StartsWith(actors[n].label, PropPrefix)})

----------------------------------------------------------------------------
(* The levels the scripts are run on *)

Origin == [x |-> 0, y |-> 0, z |-> 0]

UnitScale == [x |-> 1000, y |-> 1000, z |-> 1000]

LabelCatalogue ==
    << <<"T","e","n","t">>,
       <<"S","k","y","T","E","N","T">>,
       <<"R","o","c","k">>,
       <<"F","l","o","o","r">> >>

\* one actor per label and kind; the first label stands off the origin
CatalogueActor(n, cls, has_mesh) ==
    [label    |-> LabelCatalogue[n],
     cls      |-> cls,
     mesh     |-> IF has_mesh THEN n ELSE 0,
     location |-> IF n = 1 THEN [x |-> 150000, y |-> -20000, z |-> 5000] ELSE Origin,
     scale    |-> IF n = 3 THEN [x |-> 1500, y |-> 1500, z |-> 500] ELSE UnitScale,
     yaw      |-> 0]

ActorCatalogue ==
    { CatalogueActor(n, "StaticMeshActor", TRUE) : n \in 1..Len(LabelCatalogue) }
    \cup { CatalogueActor(n, "StaticMeshActor", FALSE) : n \in 1..Len(LabelCatalogue) }
    \cup { CatalogueActor(n, "Actor", FALSE) : n \in 1..Len(LabelCatalogue) }

\* the n-th tent of a level: "Tent1" a mesh-less actor standing off the origin,
\* "Tent2" a static mesh at the origin, and so on in turn
TentActor(n) ==
    [label    |-> <<"T","e","n","t">> \o Str(n),
     cls      |-> IF n % 2 = 1 THEN "Actor" ELSE "StaticMeshActor",
     mesh     |-> IF n % 2 = 1 THEN 0 ELSE 1,
     location |-> IF n % 2 = 1 THEN [x |-> 150000, y |-> -20000, z |-> 5000 * n]
                  ELSE Origin,
     scale    |-> UnitScale,
     yaw      |-> 0]

\* the n-th plain prop: "Crate1", "Crate2", ...
CrateActor(n) ==
    [label    |-> <<"C","r","a","t","e">> \o Str(n),
     cls      |-> "StaticMeshActor",
     mesh     |-> 10 + n,
     location |-> Origin,
     scale    |-> IF n % 2 = 1 THEN UnitScale ELSE [x |-> 1500, y |-> 1500, z |-> 500],
     yaw      |-> 0]

\* a level of n_tents tents, a floor and n_props props
Level(n_tents, n_props) ==
    [n \in 1..n_tents |-> TentActor(n)]
    \o <<CatalogueActor(4, "StaticMeshActor", TRUE)>>
    \o [n \in 1..n_props |-> CrateActor(n)]

InitialLevels ==
    { Level(n_tents, n_props) : n_tents \in 0..MaxTents, n_props \in 0..CrowdSize }

SeqsUpTo(S, n) == UNION { [1..m -> S] : m \in 0..n }

NoRequests == [spawn |-> 0, set_mesh |-> 0, set_scale |-> 0, set_label |-> 0]

\* the script's variables before its first statement
ScriptFresh ==
    /\ all_actors = <<>>
    /\ scan_i = 1
    /\ tents = <<>>
    /\ props_with_meshes = <<>>
    /\ num_props_per_tent = 0
    /\ new_actors = <<>>
    /\ tent_i = 1
    /\ tent_loc = Origin
    /\ selected_props = <<>>
    /\ i = 0
    /\ angle = 0
    /\ distance = 0
    /\ new_location = Origin
    /\ new_rotation = 0
    /\ new_actor = 0
    /\ requests = NoRequests
    /\ message = ""

\* analyze_terrain's locals before its first statement
TerrainFresh ==
    /\ x = 0
    /\ y = 0
    /\ sample_count = 0
    /\ hit_count = 0
    /\ heights = <<>>
    /\ traces = <<>>
    /\ stats = <<>>

\* analyze_terrain is not called
TerrainIdle ==
    /\ t_pc = "off"
    /\ world = FALSE
    /\ bounds_min = <<0, 0>>
    /\ bounds_max = <<0, 0>>
    /\ sample_spacing = 0
    /\ TerrainFresh

SessionStart ==
    /\ level0 = Len(scene)
    /\ spawn_calls = 0
    /\ run = 0
    /\ pc = "idle"
    /\ ScriptFresh

Init ==
    /\ scene \in InitialLevels
    /\ rng \in 0..(NumSeeds - 1)
    /\ refuse_at \in 0..MaxRefusedSpawn
    /\ SessionStart
    /\ TerrainIdle

----------------------------------------------------------------------------
(* prop_tents.py: the script *)

\* lines 5-12: a run starts; the snapshot is taken
StartRun ==
    /\ pc \in {"idle", "done"}
    /\ run < MaxRuns
    /\ run' = run + 1
    /\ all_actors' = [n \in 1..Len(scene) |-> n]
    /\ scan_i' = 1
    /\ tents' = <<>>
    /\ props_with_meshes' = <<>>
    /\ num_props_per_tent' = 0
    /\ new_actors' = <<>>
    /\ tent_i' = 1
    /\ tent_loc' = Origin
    /\ selected_props' = <<>>
    /\ i' = 0
    /\ angle' = 0
    /\ distance' = 0
    /\ new_location' = Origin
    /\ new_rotation' = 0
    /\ new_actor' = 0
    /\ requests' = NoRequests
    /\ message' = ""
    /\ pc' = "scan"
    /\ UNCHANGED <<scene, level0, rng, refuse_at, spawn_calls, terrain_vars>>

\* lines 14-30: one iteration of the classification loop
ScanActor ==
    /\ pc = "scan"
    /\ scan_i <= Len(all_actors)
    /\ LET actor == scene[all_actors[scan_i]]
       IN  /\ tents' = IF IsTent(actor) THEN Append(tents, all_actors[scan_i]) ELSE tents
           /\ props_with_meshes' =
                IF IsPropWithMesh(actor)
                THEN Append(props_with_meshes,
                            [actor |-> all_actors[scan_i],
                             mesh  |-> actor.mesh,
                             scale |-> actor.scale])
                ELSE props_with_meshes
    /\ scan_i' = scan_i + 1
    /\ UNCHANGED <<scene, level0, rng, refuse_at, spawn_calls, run, pc, all_actors,
                   num_props_per_tent, new_actors, tent_i, tent_loc, selected_props,
                   i, angle, distance, new_location, new_rotation, new_actor,
                   requests, message, terrain_vars>>

\* lines 34-38 without the elif of line 36
Branch_NoPropsGuard(n_tents, n_props) ==
    IF n_tents = 0 THEN "no_tents" ELSE "place"

\* lines 34-38: the branch the script takes after the scan
Branch(n_tents, n_props) ==
    IF n_tents = 0 THEN "no_tents"
    ELSE IF n_props = 0 THEN "no_props"
    ELSE "place"

\* lines 32-35
NoTents ==
    /\ pc = "scan"
    /\ scan_i > Len(all_actors)
    /\ Branch(Len(tents), Len(props_with_meshes)) = "no_tents"
    /\ message' = "No tents found in the level!"
    /\ pc' = "done"
    /\ UNCHANGED <<scene, level0, rng, refuse_at, spawn_calls, run, all_actors, scan_i, tents,
                   props_with_meshes, num_props_per_tent, new_actors, tent_i, tent_loc,
                   selected_props, i, angle, distance, new_location, new_rotation,
                   new_actor, requests, terrain_vars>>

\* lines 36-37
NoProps ==
    /\ pc = "scan"
    /\ scan_i > Len(all_actors)
    /\ Branch(Len(tents), Len(props_with_meshes)) = "no_props"
    /\ message' = "No props found to place around tents!"
    /\ pc' = "done"
    /\ UNCHANGED <<scene, level0, rng, refuse_at, spawn_calls, run, all_actors, scan_i, tents,
                   props_with_meshes, num_props_per_tent, new_actors, tent_i, tent_loc,
                   selected_props, i, angle, distance, new_location, new_rotation,
                   new_actor, requests, terrain_vars>>

\* lines 38-42
BeginPlacement ==
    /\ pc = "scan"
    /\ scan_i > Len(all_actors)
    /\ Branch(Len(tents), Len(props_with_meshes)) = "place"
    /\ num_props_per_tent' = NumPropsPerTent(Len(props_with_meshes))
    /\ new_actors' = <<>>
    /\ pc' = "tents"
    /\ UNCHANGED <<scene, level0, rng, refuse_at, spawn_calls, run, all_actors, scan_i, tents,
                   props_with_meshes, tent_i, tent_loc, selected_props, i, angle,
                   distance, new_location, new_rotation, new_actor, requests, message,
                   terrain_vars>>

\* lines 44-49: the next tent; its props are drawn
NextTent ==
    /\ pc = "tents"
    /\ tent_i <= Len(tents)
    /\ tent_loc' = scene[tents[tent_i]].location
    /\ LET drawn == Sample(props_with_meshes,
                           Min(num_props_per_tent, Len(props_with_meshes)), rng)
       IN  /\ selected_props' = drawn[1]
           /\ rng' = drawn[2]
    /\ i' = 0
    /\ pc' = "props"
    /\ UNCHANGED <<scene, level0, refuse_at, spawn_calls, run, all_actors, scan_i, tents,
                   props_with_meshes, num_props_per_tent, new_actors, tent_i, angle,
                   distance, new_location, new_rotation, new_actor, requests, message,
                   terrain_vars>>

\* lines 51-64: the transform of the i-th selected prop
ComputeTransform ==
    /\ pc = "props"
    /\ i < Len(selected_props)
    /\ angle' = PlacementAngle(i, num_props_per_tent, rng)
    /\ distance' = PlacementDistance(NextRng(rng))
    /\ new_location' = NewLocation(tent_loc, angle', distance')
    /\ rng' = NextRng(NextRng(rng))
    /\ pc' = "spawn"
    /\ UNCHANGED <<scene, level0, refuse_at, spawn_calls, run, all_actors, scan_i, tents,
                   props_with_meshes, num_props_per_tent, new_actors, tent_i, tent_loc,
                   selected_props, i, new_rotation, new_actor, requests, message,
                   terrain_vars>>

\* line 69 passing no location: the actor appears at the origin
SpawnedActor_AtOrigin(location, yaw) ==
    [label    |-> <<"S","t","a","t","i","c","M","e","s","h","A","c","t","o","r">>,
     cls      |-> "StaticMeshActor",
     mesh     |-> 0,
     location |-> Origin,
     scale    |-> UnitScale,
     yaw      |-> yaw]

\* lines 67-71: what spawn_actor_from_class puts in the level
SpawnedActor(location, yaw) ==
    [label    |-> <<"S","t","a","t","i","c","M","e","s","h","A","c","t","o","r">>,
     cls      |-> "StaticMeshActor",
     mesh     |-> 0,
     location |-> location,
     scale    |-> UnitScale,
     yaw      |-> yaw]

\* lines 67-71, the editor returning the new actor
Spawn ==
    /\ pc = "spawn"
    /\ spawn_calls + 1 # refuse_at
    /\ spawn_calls' = spawn_calls + 1
    /\ new_rotation' = NewRotation(rng)
    /\ rng' = NextRng(rng)
    /\ scene' = Append(scene, SpawnedActor(new_location, new_rotation'))
    /\ new_actor' = Len(scene) + 1
    /\ requests' = [requests EXCEPT !.spawn = @ + 1]
    /\ pc' = "configure"
    /\ UNCHANGED <<level0, refuse_at, run, all_actors, scan_i, tents,
                   props_with_meshes, num_props_per_tent, new_actors, tent_i, tent_loc,
                   selected_props, i, angle, distance, new_location, message,
                   terrain_vars>>

\* lines 67-73, the editor returning None: the loop goes on to the next prop
SpawnRefused ==
    /\ pc = "spawn"
    /\ spawn_calls + 1 = refuse_at
    /\ spawn_calls' = spawn_calls + 1
    /\ new_rotation' = NewRotation(rng)
    /\ rng' = NextRng(rng)
    /\ new_actor' = 0
    /\ requests' = [requests EXCEPT !.spawn = @ + 1]
    /\ i' = i + 1
    /\ pc' = "props"
    /\ UNCHANGED <<scene, level0, refuse_at, run, all_actors, scan_i, tents,
                   props_with_meshes, num_props_per_tent, new_actors, tent_i, tent_loc,
                   selected_props, angle, distance, new_location, message,
                   terrain_vars>>

\* lines 73-89: mesh, scale and label of the new actor
Configure ==
    /\ pc = "configure"
    /\ LET prop_data == selected_props[i + 1]
       IN  scene' = [scene EXCEPT ![new_actor] =
                [@ EXCEPT !.mesh  = prop_data.mesh,
                          !.scale = NewScale(prop_data.scale, ScaleVariation(rng)),
                          !.label = SpawnLabel(scene[prop_data.actor].label, i)]]
    /\ rng' = NextRng(rng)
    /\ requests' = [requests EXCEPT !.set_mesh = @ + 1, !.set_scale = @ + 1,
                                    !.set_label = @ + 1]
    /\ new_actors' = Append(new_actors, new_actor)
    /\ i' = i + 1
    /\ pc' = "props"
    /\ UNCHANGED <<level0, refuse_at, spawn_calls, run, all_actors, scan_i, tents,
                   props_with_meshes, num_props_per_tent, tent_i, tent_loc,
                   selected_props, angle, distance, new_location, new_rotation,
                   new_actor, message, terrain_vars>>

\* line 51 exhausted: back to line 44
EndTent ==
    /\ pc = "props"
    /\ i >= Len(selected_props)
    /\ tent_i' = tent_i + 1
    /\ pc' = "tents"
    /\ UNCHANGED <<scene, level0, rng, refuse_at, spawn_calls, run, all_actors, scan_i, tents,
                   props_with_meshes, num_props_per_tent, new_actors, tent_loc,
                   selected_props, i, angle, distance, new_location, new_rotation,
                   new_actor, requests, message, terrain_vars>>

\* lines 91-92
Finish ==
    /\ pc = "tents"
    /\ tent_i > Len(tents)
    /\ message' = "Successfully placed props around tents!"
    /\ pc' = "done"
    /\ UNCHANGED <<scene, level0, rng, refuse_at, spawn_calls, run, all_actors, scan_i, tents,
                   props_with_meshes, num_props_per_tent, new_actors, tent_i, tent_loc,
                   selected_props, i, angle, distance, new_location, new_rotation,
                   new_actor, requests, terrain_vars>>

Next ==
    \/ StartRun
    \/ ScanActor
    \/ NoTents
    \/ NoProps
    \/ BeginPlacement
    \/ NextTent
    \/ ComputeTransform
    \/ Spawn
    \/ SpawnRefused
    \/ Configure
    \/ EndTent
    \/ Finish

Spec == Init /\ [][Next]_vars

----------------------------------------------------------------------------
(* The classification pass alone (lines 5-30), on every level of up to     *)
(* MaxScanActors actors of the catalogue                                   *)

InitClassify ==
    /\ scene \in SeqsUpTo(ActorCatalogue, MaxScanActors)
    /\ rng = 0
    /\ refuse_at = 0
    /\ SessionStart
    /\ TerrainIdle

NextClassify ==
    \/ StartRun
    \/ ScanActor

SpecClassify == InitClassify /\ [][NextClassify]_vars

----------------------------------------------------------------------------
(* terrain_analysis.py: analyze_terrain *)

RECURSIVE SeqSum(_)
SeqSum(q) == IF q = <<>> THEN 0 ELSE Head(q) + SeqSum(Tail(q))

\* min(heights), max(heights)
SeqMin(q) == CHOOSE v \in {q[n] : n \in 1..Len(q)} : \A n \in 1..Len(q) : v <= q[n]
SeqMax(q) == CHOOSE v \in {q[n] : n \in 1..Len(q)} : \A n \in 1..Len(q) : v >= q[n]

\* lines 70-75: the statistics printed, <<>> when the block is skipped
Statistics(hs) ==
    IF hs # <<>>
    THEN <<SeqMin(hs), SeqMax(hs), SeqSum(hs) \div Len(hs), SeqMax(hs) - SeqMin(hs)>>
    ELSE <<>>

\* lines 37 and 39 with < written for <=
LoopContinues_Strict(v, v_max) == v < v_max

\* lines 37 and 39: the loop conditions
LoopContinues(v, v_max) == v <= v_max

\* the coordinates and spacings analyze_terrain is called with
Coordinates == {-1000, 0, 700, 1000}

Spacings == {-500, 0, 500, 800}

InitTerrain ==
    /\ scene = <<>>
    /\ rng = 0
    /\ refuse_at = 0
    /\ SessionStart
    /\ t_pc = "start"
    /\ world \in BOOLEAN
    /\ bounds_min \in {-1000, 0} \X {-1000, 0}
    /\ bounds_max \in Coordinates \X Coordinates
    /\ sample_spacing \in Spacings
    /\ TerrainFresh

\* lines 19-23
NoWorld ==
    /\ t_pc = "start"
    /\ ~world
    /\ t_pc' = "returned"
    /\ UNCHANGED <<prop_vars, world, bounds_min, bounds_max, sample_spacing, x, y,
                   sample_count, hit_count, heights, traces, stats>>

\* lines 25-36
EnterSweep ==
    /\ t_pc = "start"
    /\ world
    /\ heights' = <<>>
    /\ sample_count' = 0
    /\ hit_count' = 0
    /\ x' = bounds_min[1]
    /\ t_pc' = "outer"
    /\ UNCHANGED <<prop_vars, world, bounds_min, bounds_max, sample_spacing, y,
                   traces, stats>>

\* lines 37-38
EnterRow ==
    /\ t_pc = "outer"
    /\ LoopContinues(x, bounds_max[1])
    /\ y' = bounds_min[2]
    /\ t_pc' = "inner"
    /\ UNCHANGED <<prop_vars, world, bounds_min, bounds_max, sample_spacing, x,
                   sample_count, hit_count, heights, traces, stats>>

\* lines 39-64, the trace hitting: the hit is counted, no height is recorded
TraceHit ==
    /\ t_pc = "inner"
    /\ LoopContinues(y, bounds_max[2])
    /\ sample_count < MaxSamples
    /\ traces' = Append(traces, <<x, y>>)
    /\ sample_count' = sample_count + 1
    /\ hit_count' = hit_count + 1
    /\ y' = y + sample_spacing
    /\ UNCHANGED <<prop_vars, t_pc, world, bounds_min, bounds_max, sample_spacing, x,
                   heights, stats>>

\* lines 39-64, the trace missing
TraceMiss ==
    /\ t_pc = "inner"
    /\ LoopContinues(y, bounds_max[2])
    /\ sample_count < MaxSamples
    /\ traces' = Append(traces, <<x, y>>)
    /\ sample_count' = sample_count + 1
    /\ y' = y + sample_spacing
    /\ UNCHANGED <<prop_vars, t_pc, world, bounds_min, bounds_max, sample_spacing, x,
                   hit_count, heights, stats>>

\* line 65
NextRow ==
    /\ t_pc = "inner"
    /\ ~LoopContinues(y, bounds_max[2])
    /\ x + sample_spacing >= 0 - CoordinateLimit
    /\ x + sample_spacing <= CoordinateLimit
    /\ x' = x + sample_spacing
    /\ t_pc' = "outer"
    /\ UNCHANGED <<prop_vars, world, bounds_min, bounds_max, sample_spacing, y,
                   sample_count, hit_count, heights, traces, stats>>

\* lines 67-75
Report ==
    /\ t_pc = "outer"
    /\ ~LoopContinues(x, bounds_max[1])
    /\ stats' = Statistics(heights)
    /\ t_pc' = "done"
    /\ UNCHANGED <<prop_vars, world, bounds_min, bounds_max, sample_spacing, x, y,
                   sample_count, hit_count, heights, traces>>

NextTerrain ==
    \/ NoWorld
    \/ EnterSweep
    \/ EnterRow
    \/ TraceHit
    \/ TraceMiss
    \/ NextRow
    \/ Report

SpecTerrain == InitTerrain /\ [][NextTerrain]_vars

----------------------------------------------------------------------------
(* Properties of the classification pass *)

\* the classification loop has gone through the whole snapshot
ScanComplete == pc # "idle" /\ scan_i > Len(all_actors)

\* the actors the loop has classified so far
Scanned == {all_actors[n] : n \in 1..(scan_i - 1)}

TentSet == {tents[n] : n \in 1..Len(tents)}

CandidateSet == {props_with_meshes[n].actor : n \in 1..Len(props_with_meshes)}

LabelHasAnchorKeyword(idx) == Contains(Lower(scene[idx].label), <<"t","e","n","t">>)

LabelHasExclusionKeyword(idx) ==
    \E kw \in { <<"f","l","o","o","r">>, <<"p","l","a","n","e">>,
                <<"g","r","o","u","n","d">>, <<"l","a","n","d","s","c","a","p","e">>,
                <<"s","k","y">>, <<"t","e","r","r","a","i","n">> } :
        Contains(Lower(scene[idx].label), kw)

\* C1: at every point of the classification pass the anchors (tents) and the
\* candidates (props_with_meshes) are disjoint, and no actor whose lower-cased
\* label holds both 'tent' and an exclusion keyword is a candidate.
C1_Partition ==
    /\ TentSet \cap CandidateSet = {}
    /\ \A idx \in CandidateSet :
          ~(LabelHasAnchorKeyword(idx) /\ LabelHasExclusionKeyword(idx))

\* a finished pass over a level holding a static mesh labelled with both 'tent'
\* and an exclusion keyword, which is an anchor, beside a candidate
C1_Witness ==
    /\ ScanComplete
    /\ CandidateSet # {}
    /\ \E idx \in TentSet :
          /\ LabelHasExclusionKeyword(idx)
          /\ scene[idx].cls = "StaticMeshActor"
          /\ scene[idx].mesh # 0

\* C2 as claimed: a classified actor is a candidate iff it is a StaticMeshActor
\* with a resolved mesh whose label holds no exclusion keyword, whatever else
\* its label holds.
C2_AsClaimed ==
    \A idx \in Scanned :
        idx \in CandidateSet <=>
            /\ scene[idx].cls = "StaticMeshActor"
            /\ scene[idx].mesh # 0
            /\ ~LabelHasExclusionKeyword(idx)

\* C2 amended: a classified actor is a candidate iff it is a StaticMeshActor
\* with a resolved mesh whose lower-cased label holds neither an exclusion
\* keyword nor the anchor keyword 'tent'.
C2_Amended ==
    \A idx \in Scanned :
        idx \in CandidateSet <=>
            /\ scene[idx].cls = "StaticMeshActor"
            /\ scene[idx].mesh # 0
            /\ ~LabelHasExclusionKeyword(idx)
            /\ ~LabelHasAnchorKeyword(idx)

\* a finished pass that kept a meshed static mesh out of the candidates for its
\* 'tent' alone, and let another one in
C2_Witness ==
    /\ ScanComplete
    /\ CandidateSet # {}
    /\ \E idx \in Scanned :
          /\ idx \notin CandidateSet
          /\ scene[idx].cls = "StaticMeshActor"
          /\ scene[idx].mesh # 0
          /\ ~LabelHasExclusionKeyword(idx)

----------------------------------------------------------------------------
(* Properties of the placement loop *)

Abs(v) == IF v < 0 THEN 0 - v ELSE v

\* a transform has been computed and its actor is being spawned or configured
PlacementInHand == pc \in {"spawn", "configure"}

\* the script is inside the loop over the props of one tent
InPropLoop == pc \in {"props", "spawn", "configure"}

\* C4: for each tent exactly k = min(8, |candidates|) placements are generated,
\* from k distinct candidates, and the angle of the i-th one is within 20
\* degrees of i*360/k (k*angle within k*20 degrees of i*360).
C4_Slots ==
    LET k == IF Len(props_with_meshes) < 8 THEN Len(props_with_meshes) ELSE 8
    IN  /\ InPropLoop =>
              /\ Len(selected_props) = k
              /\ i <= k
              /\ \A m, n \in 1..Len(selected_props) :
                    m # n => selected_props[m].actor # selected_props[n].actor
              /\ \A m \in 1..Len(selected_props) :
                    selected_props[m].actor \in CandidateSet
        /\ PlacementInHand =>
              /\ i < k
              /\ Abs(k * angle - i * Degrees(360)) <= k * Degrees(20)
        /\ (pc = "props" /\ ~(i < Len(selected_props))) => i = k

\* the last of eight placements, drawn from more than eight candidates, with a
\* jitter that is not zero
C4_Witness ==
    /\ pc = "spawn"
    /\ Len(props_with_meshes) > 8
    /\ i = 7
    /\ angle # 7 * Degrees(45)

\* C5: every placement lies at a horizontal distance of 240 to 400 units from
\* its tent and at the tent's height.  The distance drawn is within 240..400
\* exactly; the location, which the model holds in 1/100 unit, is within 0.05
\* unit of that ring.
C5_Ring ==
    PlacementInHand =>
        LET tent == scene[tents[tent_i]].location
            dx == new_location.x - tent.x
            dy == new_location.y - tent.y
        IN  /\ 240 <= distance /\ distance <= 400
            /\ (24000 - 5) * (24000 - 5) <= dx * dx + dy * dy
            /\ dx * dx + dy * dy <= (40000 + 5) * (40000 + 5)
            /\ new_location.z = tent.z
            /\ pc = "configure" => scene[new_actor].location = new_location

\* a placement on the inner edge of the ring, off the axes, around a tent that
\* stands above the ground plane
C5_Witness ==
    /\ pc = "configure"
    /\ distance = 240
    /\ new_location.x # tent_loc.x
    /\ new_location.y # tent_loc.y
    /\ tent_loc.z # 0

\* transforms computed so far for the tent in hand
TransformsComputed == i + (IF PlacementInHand THEN 1 ELSE 0)

\* spawn requests sent so far for the tent in hand
SpawnRequestsForTent == requests.spawn - (tent_i - 1) * Len(selected_props)

C9_NothingToDo ==
    (ScanComplete /\ (Len(tents) = 0 \/ Len(props_with_meshes) = 0)) =>
        /\ requests = [spawn |-> 0, set_mesh |-> 0, set_scale |-> 0, set_label |-> 0]
        /\ Len(scene) = Len(all_actors)
        /\ pc \in {"scan", "done"}
        /\ pc = "done" =>
              message \in {"No tents found in the level!",
                           "No props found to place around tents!"}

\* a finished run that found tents and no candidate
C9_Witness ==
    /\ pc = "done"
    /\ Len(tents) > 0
    /\ Len(props_with_meshes) = 0
    /\ message = "No props found to place around tents!"

\* tents among the actors the level held before the first run
InitialTents == {idx \in 1..level0 : LabelHasAnchorKeyword(idx)}

\* C10: over repeated runs no actor spawned by the script is ever an anchor
\* (its label never holds 'tent'), so every run finds the tents of the initial
\* level and no other; a run adds at most |tents| * min(8, |candidates|)
\* actors; and the candidates of a run all belong to the snapshot taken before
\* its first spawn, the level being untouched while they are collected.
C10_Runs ==
    /\ \A idx \in (level0 + 1)..Len(scene) : ~LabelHasAnchorKeyword(idx)
    /\ ScanComplete => TentSet = InitialTents
    /\ ScanComplete =>
          Len(scene) - Len(all_actors) <=
              Len(tents) * (IF Len(props_with_meshes) < 8
                            THEN Len(props_with_meshes) ELSE 8)
    /\ pc = "scan" => Len(scene) = Len(all_actors)
    /\ CandidateSet \subseteq 1..Len(all_actors)
    /\ InPropLoop =>
          \A n \in 1..Len(selected_props) : selected_props[n].actor <= Len(all_actors)
    /\ PropCount(scene) = Len(scene) - level0 - (IF pc = "configure" THEN 1 ELSE 0)

\* a second run has finished; it used props of the first run as templates and
\* added props of its own
C10_Witness ==
    /\ run = 2
    /\ pc = "done"
    /\ \E idx \in CandidateSet : idx > level0
    /\ Len(scene) > Len(all_actors)
    /\ Len(tents) > 1

----------------------------------------------------------------------------
(* Properties of the terrain sweep *)

\* max >= min on both axes and spacing > 0
ValidRegion ==
    /\ bounds_max[1] >= bounds_min[1]
    /\ bounds_max[2] >= bounds_min[2]
    /\ sample_spacing > 0

\* steps of sample_spacing that fit between lo and hi, rounded down and up
StepsFloor(lo, hi) == (hi - lo) \div sample_spacing

StepsCeil(lo, hi) == (hi - lo + sample_spacing - 1) \div sample_spacing

\* C3 as claimed: a finished sweep of a valid region has issued
\* (ceil((max_x-min_x)/spacing)+1) * (ceil((max_y-min_y)/spacing)+1) traces,
\* the first at (min_x, min_y) and the last at (max_x, max_y).
C3_AsClaimed ==
    (t_pc = "done" /\ ValidRegion) =>
        /\ sample_count = (StepsCeil(bounds_min[1], bounds_max[1]) + 1)
                          * (StepsCeil(bounds_min[2], bounds_max[2]) + 1)
        /\ Len(traces) = sample_count
        /\ traces[1] = bounds_min
        /\ traces[Len(traces)] = bounds_max

\* C3 amended: a finished sweep of a valid region has issued
\* (floor((max_x-min_x)/spacing)+1) * (floor((max_y-min_y)/spacing)+1) traces,
\* one per sample, the first at (min_x, min_y) and the last at
\* (min_x + floor((max_x-min_x)/spacing)*spacing,
\*  min_y + floor((max_y-min_y)/spacing)*spacing),
\* which is (max_x, max_y) when the spacing divides both extents.
C3_Amended ==
    (t_pc = "done" /\ ValidRegion) =>
        LET nx == StepsFloor(bounds_min[1], bounds_max[1])
            ny == StepsFloor(bounds_min[2], bounds_max[2])
        IN  /\ sample_count = (nx + 1) * (ny + 1)
            /\ Len(traces) = sample_count
            /\ traces[1] = bounds_min
            /\ traces[Len(traces)] = <<bounds_min[1] + nx * sample_spacing,
                                       bounds_min[2] + ny * sample_spacing>>
            /\ (nx * sample_spacing = bounds_max[1] - bounds_min[1]
                /\ ny * sample_spacing = bounds_max[2] - bounds_min[2])
                   => traces[Len(traces)] = bounds_max

\* the sweep of (-1000,-1000)..(1000,1000) at spacing 500 has finished with its
\* 25 traces
C3_Witness ==
    /\ t_pc = "done"
    /\ bounds_min = <<-1000, -1000>>
    /\ bounds_max = <<1000, 1000>>
    /\ sample_spacing = 500
    /\ sample_count = 25
    /\ traces[25] = <<1000, 1000>>

\* C6 as claimed: after a sweep, no hit means no statistics, and n > 0 hits
\* mean that min, max and mean height are reported over exactly the n hit
\* points, with min <= mean <= max.
C6_AsClaimed ==
    t_pc = "done" =>
        /\ hit_count = 0 => stats = <<>>
        /\ hit_count > 0 =>
              /\ Len(heights) = hit_count
              /\ stats # <<>>
              /\ stats[1] <= stats[3]
              /\ stats[3] <= stats[2]

\* non-positive spacing, or max < min on an axis
InvalidConfiguration ==
    \/ sample_spacing <= 0
    \/ bounds_max[1] < bounds_min[1]
    \/ bounds_max[2] < bounds_min[2]

\* C7 as claimed: a call with an invalid configuration issues no trace and does
\* not run to its normal end (the sweep's report): it is rejected first.
C7_AsClaimed ==
    (world /\ InvalidConfiguration) =>
        /\ traces = <<>>
        /\ sample_count = 0
        /\ t_pc # "done"

====
